---- MODULE Spec2Model ----
(***************************************************************************)
(* Model of macro_lightning/physics.py: the velocity-grid integrators      *)
(* calculate_Mx and calculate_Sx, their driver calculate_Mx_and_Sx, and    *)
(* the escape-velocity composers twobody_vesc and multibody_vesc.          *)
(*                                                                         *)
(* Quantities are fixed-point integers:                                    *)
(*   speeds               1 km/s in the integrators,                       *)
(*                        0.1 km/s in the escape-velocity composers        *)
(*   Maxwellian weights   1e-5 (dimensionless)                             *)
(*   cumulative flux vbar 1e-5 km/s                                        *)
(*   cross-sections       1e-10 cm^2                                       *)
(* and unit conversions are the identity.  A Python value that may be      *)
(* absent (None, an unbound local) is a tuple of length 0 or 1: <<>> is    *)
(* None/unbound, <<v>> is the value v.  The progress bar (tqdm) and the    *)
(* unit validation of the decorators are not part of the model.            *)
(***************************************************************************)
EXTENDS Integers, Sequences, FiniteSets, TLC

VARIABLES
    pc,      \* position of the running call
    entry,   \* the function the caller invoked: "Mx", "Sx" or "MxSx"
    args,    \* the caller's arguments
    mx,      \* the frame (parameters and locals) of calculate_Mx
    sx,      \* the frame (parameters and locals) of calculate_Sx
    mxRet,   \* what calculate_Mx returned or raised, <<>> before that
    sxRet,   \* what calculate_Sx returned or raised, <<>> before that
    sxArgs,  \* the arguments calculate_Sx was called with, <<>> before that
    ret,     \* the outcome of the caller's call, <<>> while it runs
    ncalls,  \* calls started so far
    prev     \* <<[entry, args, ret]>> of the first finished call, or <<>>

vars == <<pc, entry, args, mx, sx, mxRet, sxRet, sxArgs, ret, ncalls, prev>>

-----------------------------------------------------------------------------
(* Bounds of the model *)

\* longest velocity axis (N samples, N^3 grid points)
MaxN == 4

\* calls in a row in the repeated-call specification
MaxCalls == 3

-----------------------------------------------------------------------------
(* Program constants *)

\* physics.py:416  Vhold = 800.0 * u.km / u.s
VholdInit == 800

\* physics.py:419  np.allclose(a, b): |a - b| <= atol + rtol * |b|.
\* numpy's defaults are rtol = 1e-5, atol = 1e-8.  On the 1 km/s grid two
\* unequal steps differ by at least 1, so the relative tolerance is carried
\* at the grid's scale, rtol = 1 / RTolInv, and atol (far below one grid
\* unit) only ever admits a = b.
RTolInv == 10

None == <<>>

Some(v) == <<v>>

Abs(x) == IF x < 0 THEN -x ELSE x

-----------------------------------------------------------------------------
(* utils.py *)

RECURSIVE SumSq(_)
SumSq(s) == IF s = <<>> THEN 0 ELSE Head(s) * Head(s) + SumSq(Tail(s))

RECURSIVE SqrtUp(_, _, _)
SqrtUp(n, lo, hi) ==
    IF lo >= hi THEN lo
    ELSE LET mid == (lo + hi) \div 2
         IN  IF mid * mid >= n THEN SqrtUp(n, lo, mid)
                               ELSE SqrtUp(n, mid + 1, hi)

\* qnorm(*args) = numpy.linalg.norm(as_quantity(args)): the Euclidean norm.
\* The square root is rounded up to the 1 km/s grid, so that
\* qnorm(v) <= b for a grid value b decides exactly as sum(v^2) <= b^2.
qnorm(s) == SqrtUp(SumSq(s), 0, 4096)

-----------------------------------------------------------------------------
(* physics.py: f_BM_bin *)

\* exp(-k) at scale 1e4, k = 0, 1, 2, ...
ExpTab == <<10000, 3679, 1353, 498, 183, 67, 25, 9, 3, 1>>

ExpAt(k) == IF k < Len(ExpTab) THEN ExpTab[k + 1] ELSE 0

\* exp(-num/den) at scale 1e4, linear between the table's entries
ExpNeg(num, den) ==
    LET k == num \div den
        r == num % den
    IN  ExpAt(k) - ((ExpAt(k) - ExpAt(k + 1)) * r) \div den

\* norm = (vbin / vvir)^3 / pi^(3/2);  exp = exp(-(vx / vvir)^2);  norm * exp
f_BM_bin(vx, vbin, vvir) ==
    LET r == (vbin * 100) \div vvir
        norm == (r * r * r * 100) \div 557
        exp == ExpNeg(vx * vx, vvir * vvir)
    IN  (norm * exp) \div 100000

-----------------------------------------------------------------------------
(* numpy and itertools helpers used by the integrators *)

\* np.diff(vels)
Diff(vels) ==
    IF Len(vels) < 2 THEN <<>>
    ELSE [k \in 1 .. (Len(vels) - 1) |-> vels[k + 1] - vels[k]]

\* one element of np.isclose(a, b)
IsClose(a, b) == RTolInv * Abs(a - b) <= Abs(b)

\* np.allclose(steps[:-1], steps[1:])
AllCloseSteps(steps) ==
    \A k \in 1 .. (Len(steps) - 1) : IsClose(steps[k], steps[k + 1])

\* np.zeros(len(vels) ** 3)
Zeros(vels) == [k \in 1 .. (Len(vels) * Len(vels) * Len(vels)) |-> 0]

\* iter(itertools.product(vels, vels, vels)): the index triple of the item
\* the iterator yields next, <<>> once exhausted
ProductStart(vels) == IF Len(vels) = 0 THEN <<>> ELSE <<1, 1, 1>>

\* faulty variant: the leftmost index turns fastest
ProductNextFirstFastest(it, n) ==
    IF it[1] < n THEN <<it[1] + 1, it[2], it[3]>>
    ELSE IF it[2] < n THEN <<1, it[2] + 1, it[3]>>
    ELSE IF it[3] < n THEN <<1, 1, it[3] + 1>>
    ELSE <<>>

\* next() on itertools.product: the rightmost index turns fastest
ProductNext(it, n) ==
    IF it[3] < n THEN <<it[1], it[2], it[3] + 1>>
    ELSE IF it[2] < n THEN <<it[1], it[2] + 1, 1>>
    ELSE IF it[1] < n THEN <<it[1] + 1, 1, 1>>
    ELSE <<>>

\* faulty variant: arr[arr >= 0]: the zero sentinel is kept
NonNegative(x) == x >= 0

\* arr[arr > 0]
Positive(x) == x > 0

Compact(arr) == SelectSeq(arr, Positive)

\* the outcome of a call: a returned tuple, or a raised exception
Return(value) == [kind |-> "return", value |-> value]

Raise(exception) == [kind |-> exception, value |-> <<>>]

-----------------------------------------------------------------------------
(* physics.py: calculate_Mx *)

\* the frame at entry: the parameters bound, vbar and Vhold as given, the
\* other locals not yet assigned
MxFrame(a, vbar, Vhold) ==
    [vels |-> a.vels, vvir |-> a.vvir, vesc |-> a.vesc, vcirc |-> a.vcirc,
     vmin |-> a.vmin, Arho |-> a.Arho,
     vbar |-> vbar, Vhold |-> Vhold,
     vstep |-> None, Mxs |-> <<>>, it |-> <<>>, i |-> 0,
     vrel |-> None, exc |-> None]

\* faulty variant: vbar is a module-level accumulator: a call starts from the
\* cumulative flux an earlier call left behind
MxEnterStale(a) ==
    MxFrame(a,
            IF prev # None /\ prev[1].entry = "MxSx" /\ prev[1].ret.kind = "return"
            THEN prev[1].ret.value[3] ELSE 0,
            VholdInit)

\* parameter binding and the first two assignments
MxEnter(a) == MxFrame(a, 0, VholdInit)

\* faulty variant: the bin width is the signed first step
MxSetupSigned(f) ==
    LET steps == Diff(f.vels)
    IN  IF ~AllCloseSteps(steps)
        THEN [f EXCEPT !.exc = Some("ValueError")]
        ELSE IF steps = <<>>
        THEN [f EXCEPT !.exc = Some("IndexError")]
        ELSE [f EXCEPT !.vstep = Some(steps[1]),
                       !.Mxs = Zeros(f.vels),
                       !.it = ProductStart(f.vels)]

\* the spacing check, then the output array and the iterator
MxSetup(f) ==
    LET steps == Diff(f.vels)
    IN  IF ~AllCloseSteps(steps)
        THEN [f EXCEPT !.exc = Some("ValueError")]
        ELSE IF steps = <<>>
        THEN [f EXCEPT !.exc = Some("IndexError")]  \* steps[0] of an empty array
        ELSE [f EXCEPT !.vstep = Some(Abs(steps[1])),
                       !.Mxs = Zeros(f.vels),
                       !.it = ProductStart(f.vels)]

\* faulty variant: a triple on the escape-velocity sphere is skipped
MxBodyStrict(f, vx, vy, vz) ==
    IF qnorm(<<vx, vy, vz>>) < f.vesc
    THEN LET maxwellian == f_BM_bin(qnorm(<<vx, vy, vz>>), f.vstep[1], f.vvir)
             vrel == qnorm(<<f.vmin, vx, vy - f.vcirc, vz>>)
             vbar == f.vbar + vrel * maxwellian
             m == f.Arho * vbar
         IN  [f EXCEPT !.vrel = Some(vrel), !.vbar = vbar, !.Mxs[f.i + 1] = m]
    ELSE f

\* faulty variant: vbar is the flux of the current triple alone, not the
\* running sum
MxBodyPerTriple(f, vx, vy, vz) ==
    IF qnorm(<<vx, vy, vz>>) <= f.vesc
    THEN LET maxwellian == f_BM_bin(qnorm(<<vx, vy, vz>>), f.vstep[1], f.vvir)
             vrel == qnorm(<<f.vmin, vx, vy - f.vcirc, vz>>)
             vbar == vrel * maxwellian
             m == f.Arho * vbar
         IN  [f EXCEPT !.vrel = Some(vrel), !.vbar = vbar, !.Mxs[f.i + 1] = m]
    ELSE f

\* the loop body for the triple (vx, vy, vz) at flat position f.i
MxBody(f, vx, vy, vz) ==
    IF qnorm(<<vx, vy, vz>>) <= f.vesc
    THEN LET maxwellian == f_BM_bin(qnorm(<<vx, vy, vz>>), f.vstep[1], f.vvir)
             vrel == qnorm(<<f.vmin, vx, vy - f.vcirc, vz>>)
             vbar == f.vbar + vrel * maxwellian
             m == f.Arho * vbar
         IN  [f EXCEPT !.vrel = Some(vrel), !.vbar = vbar, !.Mxs[f.i + 1] = m]
    ELSE f

\* one turn of the for loop: take the next triple, run the body, advance
MxStep(f) ==
    LET g == MxBody(f, f.vels[f.it[1]], f.vels[f.it[2]], f.vels[f.it[3]])
    IN  [g EXCEPT !.i = f.i + 1, !.it = ProductNext(f.it, Len(f.vels))]

\* faulty variant: Vhold is only ever lowered, as the docstring describes it
MxFinishLowerOnly(f) ==
    IF f.vrel = None
    THEN [f EXCEPT !.exc = Some("UnboundLocalError")]
    ELSE [f EXCEPT !.Vhold = IF f.vrel[1] < f.Vhold THEN f.vrel[1] ELSE f.Vhold,
                   !.Mxs = Compact(f.Mxs)]

\* after the loop: Vhold = vrel, then the compaction
MxFinish(f) ==
    IF f.vrel = None
    THEN [f EXCEPT !.exc = Some("UnboundLocalError")]
    ELSE [f EXCEPT !.Vhold = f.vrel[1], !.Mxs = Compact(f.Mxs)]

\* return Mxs, vbar, Vhold
MxResult(f) ==
    IF f.exc # None THEN Raise(f.exc[1])
    ELSE Return(<<f.Mxs, f.vbar, f.Vhold>>)

-----------------------------------------------------------------------------
(* physics.py: calculate_Sx *)

\* parameter binding, the output array and the iterator
SxEnter(a) ==
    [vels |-> a.vels, vesc |-> a.vesc, vhold |-> a.vhold, vcirc |-> a.vcirc,
     vmin |-> a.vmin, minsigma |-> a.minsigma, sigma_factor |-> a.sigma_factor,
     Sxs |-> Zeros(a.vels), it |-> ProductStart(a.vels), i |-> 0,
     vrel |-> None, exc |-> None]

\* faulty variant: the cross-section is not floored at minsigma
SigmaAtNoFloor(f, vrel) == f.sigma_factor[1] \div (vrel * vrel)

\* one cross-section: sigma_factor / vrel ** 2, floored at minsigma
SigmaAt(f, vrel) ==
    LET sx0 == f.sigma_factor[1] \div (vrel * vrel)
    IN  IF sx0 < f.minsigma THEN f.minsigma ELSE sx0

\* faulty variant: the relative velocity is not capped by vhold
SxBodyNoClamp(f, vx, vy, vz) ==
    IF qnorm(<<vx, vy, vz>>) <= f.vesc
    THEN LET vrel == qnorm(<<f.vmin, vx, vy - f.vcirc, vz>>)
             g == [f EXCEPT !.vrel = Some(vrel), !.vhold = vrel]
         IN  IF f.sigma_factor = None
             THEN [g EXCEPT !.exc = Some("TypeError")]
             ELSE [g EXCEPT !.Sxs[f.i + 1] = SigmaAt(f, vrel)]
    ELSE f

\* the loop body for the triple (vx, vy, vz) at flat position f.i
SxBody(f, vx, vy, vz) ==
    IF qnorm(<<vx, vy, vz>>) <= f.vesc
    THEN LET vrel0 == qnorm(<<f.vmin, vx, vy - f.vcirc, vz>>)
             vrel == IF vrel0 > f.vhold THEN f.vhold ELSE vrel0
             g == [f EXCEPT !.vrel = Some(vrel), !.vhold = vrel]
         IN  IF f.sigma_factor = None
             THEN [g EXCEPT !.exc = Some("TypeError")]  \* None / vrel ** 2
             ELSE [g EXCEPT !.Sxs[f.i + 1] = SigmaAt(f, vrel)]
    ELSE f

\* one turn of the for loop
SxStep(f) ==
    LET g == SxBody(f, f.vels[f.it[1]], f.vels[f.it[2]], f.vels[f.it[3]])
    IN  [g EXCEPT !.i = f.i + 1, !.it = ProductNext(f.it, Len(f.vels))]

\* after the loop: the compaction
SxFinish(f) == [f EXCEPT !.Sxs = Compact(f.Sxs)]

\* return Sxs, vhold
SxResult(f) ==
    IF f.exc # None THEN Raise(f.exc[1])
    ELSE Return(<<f.Sxs, f.vhold>>)

-----------------------------------------------------------------------------
(* physics.py: calculate_Mx_and_Sx *)

\* faulty variant: calculate_Sx is seeded with the 800 km/s default, not with
\* what calculate_Mx returned
SxCallArgsDefaultSeed(a, Vhold) ==
    [vels |-> a.vels, vesc |-> a.vesc, vhold |-> VholdInit, vmin |-> a.vmin,
     vcirc |-> a.vcirc, minsigma |-> a.minsigma,
     sigma_factor |-> a.sigma_factor]

\* the keyword arguments of the call of calculate_Sx
SxCallArgs(a, Vhold) ==
    [vels |-> a.vels, vesc |-> a.vesc, vhold |-> Vhold, vmin |-> a.vmin,
     vcirc |-> a.vcirc, minsigma |-> a.minsigma,
     sigma_factor |-> a.sigma_factor]

\* return Mxs, Sxs, vbar, Vhold
MxSxReturn(mv, sv) == <<mv[1], sv[1], mv[2], sv[2]>>

-----------------------------------------------------------------------------
(* physics.py: twobody_vesc and multibody_vesc *)

\* physics.py:46  _sqrt2 = np.sqrt(2), at scale 1e4
Sqrt2 == 14142

\* np.sqrt on the 0.1 km/s grid, rounded up like qnorm
Sqrt(n) == SqrtUp(n, 0, 32768)

\* _norm_v1_v2(v1, v2)
norm_v1_v2(v1, v2) == Sqrt(v1 * v1 + v2 * v2)

\* vo = vo or ve2 / _sqrt2: Python's `or` keeps vo when it is truthy; None
\* and a zero are falsy.  Then sqrt(ve1 ** 2 + (ve2 - vo) ** 2).
twobody_vesc(ve1, ve2, vo) ==
    LET vo1 == IF vo # None /\ vo[1] # 0 THEN vo[1]
               ELSE (ve2 * 10000) \div Sqrt2
    IN  Sqrt(ve1 * ve1 + (ve2 - vo1) * (ve2 - vo1))

\* a Python object handed to as_quantity: a tuple of numbers, or the
\* iterator object itertools.accumulate(iterable, func) creates
PyTuple(items) == [type |-> "tuple", items |-> items]

PyAccumulate(items) == [type |-> "accumulate", items |-> items]

\* Quantity(arg, copy=False, subok=True) builds an array from a tuple of
\* numbers.  An iterator is neither a number nor a sequence (it has no len()):
\* Quantity() fails on it, and as_quantity turns every failure into
\* NotImplementedError.
as_quantity(arg) ==
    IF arg.type = "tuple" THEN Return(arg.items)
    ELSE Raise("NotImplementedError")

\* faulty variant: the first velocity is scaled like the others
CircularAll(vs) ==
    [k \in 1 .. Len(vs) |->
        (vs[k] * (10000 - 100000000 \div Sqrt2)) \div 10000]

\* vs[1:] = vs[1:] * (1 - 1 / np.sqrt(2))
Circular(vs) ==
    [k \in 1 .. Len(vs) |->
        IF k = 1 THEN vs[1]
        ELSE (vs[k] * (10000 - 100000000 \div Sqrt2)) \div 10000]

\* numpy's broadcast of two one-dimensional shapes: <<n>>, or <<>> when the
\* shapes are incompatible
Broadcast(a, b) ==
    IF a = b THEN Some(a)
    ELSE IF a = 1 THEN Some(b)
    ELSE IF b = 1 THEN Some(a)
    ELSE None

\* vs[1:] = vs[1:] - vo: the difference has the broadcast shape of vs[1:] and
\* vo, and the assignment needs that shape to fit vs[1:]; <<>> stands for the
\* ValueError numpy raises otherwise
SubtractOrbital(vs, vo) ==
    LET a == IF Len(vs) = 0 THEN 0 ELSE Len(vs) - 1
        shape == Broadcast(a, Len(vo))
    IN  IF shape = None \/ (shape[1] # a /\ shape[1] # 1) THEN None
        ELSE Some([k \in 1 .. Len(vs) |->
                      IF k = 1 THEN vs[1]
                      ELSE vs[k] - vo[IF Len(vo) = 1 THEN 1 ELSE k - 1]])

\* functools.reduce(_norm_v1_v2, rest, acc)
RECURSIVE Reduce(_, _)
Reduce(acc, rest) ==
    IF rest = <<>> THEN acc
    ELSE Reduce(norm_v1_v2(acc, Head(rest)), Tail(rest))

\* the outcome of multibody_vesc(*vescs, vo=vo, accumulate=accumulate)
multibody_vesc(vescs, vo, accumulate) ==
    LET vs == as_quantity(PyTuple(vescs)).value
        corrected == IF vo = None THEN Some(Circular(vs))
                     ELSE SubtractOrbital(vs, vo[1])
    IN  IF corrected = None THEN Raise("ValueError")
        ELSE IF accumulate THEN as_quantity(PyAccumulate(corrected[1]))
        ELSE IF corrected[1] = <<>>
        THEN Raise("TypeError")  \* reduce() of an empty sequence
        ELSE Return(Reduce(Head(corrected[1]), Tail(corrected[1])))

-----------------------------------------------------------------------------
(* The callers' inputs *)

\* the default arguments of calculate_Mx_and_Sx (vmin = 42.1 km/s on the grid)
Defaults ==
    [vvir |-> 250, vesc |-> 550, vcirc |-> 220, vmin |-> 42, Arho |-> 3,
     minsigma |-> 600, sigma_factor |-> None]

\* sample k of an n-sample axis from start with first step `step`:
\*   "even"       equal steps
\*   "perturbed"  equal steps, the last sample one step too far ([0,1,2,4])
\*   "drift"      every step longer than the one before by step / RTolInv
AxisOf(start, step, n, shape) ==
    [k \in 1 .. n |->
        start + (k - 1) * step
        + (IF shape = "perturbed" /\ k = n /\ n >= 3 THEN step ELSE 0)
        + (IF shape = "drift"
           THEN (step \div RTolInv) * (((k - 1) * (k - 2)) \div 2) ELSE 0)]

Axes ==
    {AxisOf(start, step, n, shape) :
        start \in {-100, 100}, step \in {100, -100},
        n \in 1 .. MaxN, shape \in {"even", "perturbed", "drift"}}

Vescs == {50, 300, 550}

Vcircs == {220, 900}

Arhos == {0, 3}

Vholds == {150, VholdInit}

MinSigmas == {0, Defaults.minsigma}

SigmaFactors == {None, Some(0), Some(10000000)}

\* calls of calculate_Mx(vels, vvir, vesc, vcirc, vmin, Arho)
MxCalls(axes, vescs, vcircs, arhos) ==
    {[entry |-> "Mx",
      args |-> [vels |-> v, vvir |-> Defaults.vvir, vesc |-> e, vcirc |-> c,
                vmin |-> Defaults.vmin, Arho |-> A]] :
        v \in axes, e \in vescs, c \in vcircs, A \in arhos}

\* calls of calculate_Sx(vels, vesc, vhold, vcirc, vmin, minsigma, sigma_factor)
SxCalls(axes, vescs, vcircs, vholds, minsigmas, factors) ==
    {[entry |-> "Sx",
      args |-> [vels |-> v, vesc |-> e, vhold |-> h, vcirc |-> c,
                vmin |-> Defaults.vmin, minsigma |-> m, sigma_factor |-> s]] :
        v \in axes, e \in vescs, h \in vholds, c \in vcircs,
        m \in minsigmas, s \in factors}

\* calls of calculate_Mx_and_Sx(vels, vvir, vesc, vcirc, vmin, Arho,
\*                              minsigma=, sigma_factor=)
MxSxCalls(axes, vescs, vcircs, arhos, minsigmas, factors) ==
    {[entry |-> "MxSx",
      args |-> [vels |-> v, vvir |-> Defaults.vvir, vesc |-> e, vcirc |-> c,
                vmin |-> Defaults.vmin, Arho |-> A, minsigma |-> m,
                sigma_factor |-> s]] :
        v \in axes, e \in vescs, c \in vcircs, A \in arhos,
        m \in minsigmas, s \in factors}

Calls ==
    MxCalls(Axes, Vescs, Vcircs, Arhos)
    \cup SxCalls(Axes, Vescs, {Defaults.vcirc}, Vholds, MinSigmas, SigmaFactors)
    \cup MxSxCalls(Axes, Vescs, {Defaults.vcirc}, Arhos, MinSigmas, SigmaFactors)

\* the calls of the repeated-call specification: two short axes
SmallAxes == {AxisOf(start, 100, 2, "even") : start \in {0, 100}}

SmallCalls ==
    MxCalls(SmallAxes, {50, 550}, {Defaults.vcirc}, {Defaults.Arho})
    \cup SxCalls(SmallAxes, {550}, {Defaults.vcirc}, Vholds,
                 {Defaults.minsigma}, {Some(100000000)})
    \cup MxSxCalls(SmallAxes, {50, 550}, {Defaults.vcirc}, {Defaults.Arho},
                   {Defaults.minsigma}, {None, Some(100000000)})

-----------------------------------------------------------------------------
(* The state machine *)

\* a call c is made; nothing of it has run yet
Enter(c) ==
    /\ pc = "start"
    /\ entry = c.entry
    /\ args = c.args
    /\ mx = None
    /\ sx = None
    /\ mxRet = None
    /\ sxRet = None
    /\ sxArgs = None
    /\ ret = None

Init ==
    /\ \E c \in Calls : Enter(c)
    /\ ncalls = 1
    /\ prev = None

InitRepeat ==
    /\ \E c \in SmallCalls : Enter(c)
    /\ ncalls = 1
    /\ prev = None

\* the interpreter enters the function the caller invoked
Start ==
    /\ pc = "start"
    /\ IF entry = "Sx"
       THEN /\ sxArgs' = Some(args)
            /\ sx' = SxEnter(args)
            /\ pc' = "Sx_loop"
            /\ UNCHANGED mx
       ELSE /\ mx' = MxEnter(args)
            /\ pc' = "Mx_check"
            /\ UNCHANGED <<sx, sxArgs>>
    /\ UNCHANGED <<entry, args, mxRet, sxRet, ret, ncalls, prev>>

\* calculate_Mx up to the loop
MxCheck ==
    /\ pc = "Mx_check"
    /\ mx' = MxSetup(mx)
    /\ IF mx'.exc # None
       THEN /\ mxRet' = Some(MxResult(mx'))
            /\ pc' = "Mx_ret"
       ELSE /\ pc' = "Mx_loop"
            /\ UNCHANGED mxRet
    /\ UNCHANGED <<entry, args, sx, sxRet, sxArgs, ret, ncalls, prev>>

\* one iteration of the loop of calculate_Mx
MxIter ==
    /\ pc = "Mx_loop"
    /\ mx.it # <<>>
    /\ mx' = MxStep(mx)
    /\ UNCHANGED <<pc, entry, args, sx, mxRet, sxRet, sxArgs, ret, ncalls, prev>>

\* calculate_Mx after the loop, to its return
MxEnd ==
    /\ pc = "Mx_loop"
    /\ mx.it = <<>>
    /\ mx' = MxFinish(mx)
    /\ mxRet' = Some(MxResult(mx'))
    /\ pc' = "Mx_ret"
    /\ UNCHANGED <<entry, args, sx, sxRet, sxArgs, ret, ncalls, prev>>

\* calculate_Mx hands back to its caller: the user, or calculate_Mx_and_Sx,
\* which goes on to call calculate_Sx (an exception passes through it)
MxReturned ==
    /\ pc = "Mx_ret"
    /\ IF entry = "Mx" \/ mxRet[1].kind # "return"
       THEN /\ ret' = mxRet
            /\ pc' = "done"
            /\ UNCHANGED <<sx, sxArgs>>
       ELSE /\ sxArgs' = Some(SxCallArgs(args, mxRet[1].value[3]))
            /\ sx' = SxEnter(sxArgs'[1])
            /\ pc' = "Sx_loop"
            /\ UNCHANGED ret
    /\ UNCHANGED <<entry, args, mx, mxRet, sxRet, ncalls, prev>>

\* one iteration of the loop of calculate_Sx
SxIter ==
    /\ pc = "Sx_loop"
    /\ sx.it # <<>>
    /\ sx' = SxStep(sx)
    /\ IF sx'.exc # None
       THEN /\ sxRet' = Some(SxResult(sx'))
            /\ pc' = "Sx_ret"
       ELSE UNCHANGED <<pc, sxRet>>
    /\ UNCHANGED <<entry, args, mx, mxRet, sxArgs, ret, ncalls, prev>>

\* calculate_Sx after the loop, to its return
SxEnd ==
    /\ pc = "Sx_loop"
    /\ sx.it = <<>>
    /\ sx' = SxFinish(sx)
    /\ sxRet' = Some(SxResult(sx'))
    /\ pc' = "Sx_ret"
    /\ UNCHANGED <<entry, args, mx, mxRet, sxArgs, ret, ncalls, prev>>

\* calculate_Sx hands back to its caller: the user, or calculate_Mx_and_Sx,
\* which returns the four values
SxReturned ==
    /\ pc = "Sx_ret"
    /\ ret' = IF entry = "Sx" \/ sxRet[1].kind # "return"
              THEN sxRet
              ELSE Some(Return(MxSxReturn(mxRet[1].value, sxRet[1].value)))
    /\ pc' = "done"
    /\ UNCHANGED <<entry, args, mx, sx, mxRet, sxRet, sxArgs, ncalls, prev>>

\* the caller makes another call after the last one has finished
NewCall ==
    /\ pc = "done"
    /\ ncalls < MaxCalls
    /\ ncalls' = ncalls + 1
    /\ prev' = IF prev = None
               THEN Some([entry |-> entry, args |-> args, ret |-> ret[1]])
               ELSE prev
    /\ \E c \in SmallCalls :
          /\ pc' = "start"
          /\ entry' = c.entry
          /\ args' = c.args
    /\ mx' = None
    /\ sx' = None
    /\ mxRet' = None
    /\ sxRet' = None
    /\ sxArgs' = None
    /\ ret' = None

Next ==
    \/ Start
    \/ MxCheck
    \/ MxIter
    \/ MxEnd
    \/ MxReturned
    \/ SxIter
    \/ SxEnd
    \/ SxReturned

NextRepeat ==
    \/ Next
    \/ NewCall

\* one call, of any of the three functions, run to its end
Spec == Init /\ [][Next]_vars

\* up to MaxCalls calls one after the other
SpecRepeat == InitRepeat /\ [][NextRepeat]_vars

-----------------------------------------------------------------------------
(* The escape-velocity composers: their inputs and their state machine *)

\* longest chain of escape velocities
MaxChain == 3

\* 11.2, 42.1 and 550 km/s: Earth, the Sun at the Earth, the Galaxy at the Sun
EscapeVelocities == {112, 421, 5500}

\* none, and the Earth's 29.8 km/s around the Sun
OrbitalVelocities == {0, 298}

\* the sequences over S of length lo .. hi
SeqsOf(S, lo, hi) == UNION {[1 .. n -> S] : n \in lo .. hi}

\* calls of twobody_vesc(ve1, ve2, vo)
TwobodyCalls ==
    {[entry |-> "twobody_vesc", args |-> [ve1 |-> a, ve2 |-> b, vo |-> o]] :
        a \in EscapeVelocities, b \in EscapeVelocities,
        o \in {None} \cup {Some(v) : v \in OrbitalVelocities}}

\* calls of multibody_vesc(*vescs, vo=, accumulate=)
MultibodyCalls ==
    {[entry |-> "multibody_vesc",
      args |-> [vescs |-> c, vo |-> o, accumulate |-> acc]] :
        c \in SeqsOf(EscapeVelocities, 0, MaxChain),
        o \in {None} \cup {Some(l) : l \in SeqsOf(OrbitalVelocities, 0, MaxChain)},
        acc \in BOOLEAN}

VescCalls == TwobodyCalls \cup MultibodyCalls

InitVesc ==
    /\ \E c \in VescCalls : Enter(c)
    /\ ncalls = 1
    /\ prev = None

\* a call of twobody_vesc, from entry to return
TwobodyVesc ==
    /\ pc = "start"
    /\ entry = "twobody_vesc"
    /\ ret' = Some(Return(twobody_vesc(args.ve1, args.ve2, args.vo)))
    /\ pc' = "done"
    /\ UNCHANGED <<entry, args, mx, sx, mxRet, sxRet, sxArgs, ncalls, prev>>

\* a call of multibody_vesc, from entry to return or exception
MultibodyVesc ==
    /\ pc = "start"
    /\ entry = "multibody_vesc"
    /\ ret' = Some(multibody_vesc(args.vescs, args.vo, args.accumulate))
    /\ pc' = "done"
    /\ UNCHANGED <<entry, args, mx, sx, mxRet, sxRet, sxArgs, ncalls, prev>>

NextVesc ==
    \/ TwobodyVesc
    \/ MultibodyVesc

\* one call of twobody_vesc or multibody_vesc
SpecVesc == InitVesc /\ [][NextVesc]_vars

-----------------------------------------------------------------------------
(* Vocabulary of the properties: the grid as the specification describes   *)
(* it, by flat position p = (ix * N + iy) * N + iz, counted from 0.        *)

Cube(vels) == Len(vels) * Len(vels) * Len(vels)

TripleAt(vels, p) ==
    LET n == Len(vels)
    IN  <<vels[(p \div (n * n)) + 1], vels[((p \div n) % n) + 1], vels[(p % n) + 1]>>

\* the triple at position p lies inside the escape-velocity sphere
Qualifies(vels, vesc, p) == SumSq(TripleAt(vels, p)) <= vesc * vesc

\* the qualifying positions among the first n
QualifyingBelow(vels, vesc, n) ==
    {p \in 0 .. (n - 1) : Qualifies(vels, vesc, p)}

\* the Earth-frame relative velocity at position p
VrelAt(vels, vmin, vcirc, p) ==
    LET t == TripleAt(vels, p)
    IN  qnorm(<<vmin, t[1], t[2] - vcirc, t[3]>>)

SetMax(S) == CHOOSE x \in S : \A y \in S : y <= x

SetMin(S) == CHOOSE x \in S : \A y \in S : x <= y

Range(q) == {q[k] : k \in 1 .. Len(q)}

\* the smallest and the largest successive difference are approximately equal
MinMaxClose(vels) ==
    LET steps == Range(Diff(vels))
    IN  steps # {} => IsClose(SetMin(steps), SetMax(steps))

\* all successive differences are equal within tolerance, pair by pair
AllStepsClose(vels) ==
    \A a, b \in Range(Diff(vels)) : IsClose(a, b)

MxDone == mxRet # None

SxDone == sxRet # None

MxReturnedValue == MxDone /\ mxRet[1].kind = "return"

SxReturnedValue == SxDone /\ sxRet[1].kind = "return"

Finished == pc = "done"

FinishedWithValue == Finished /\ ret[1].kind = "return"

-----------------------------------------------------------------------------
(* C1 *)

\* C1: calculate_Mx_and_Sx runs calculate_Mx first, on the caller's axis and
\* parameters, then calculate_Sx on the same axis and parameters with
\* vhold = the Vhold calculate_Mx returned and nothing else of it, and
\* returns (Mxs of calculate_Mx, Sxs of calculate_Sx, vbar of calculate_Mx,
\* vhold of calculate_Sx).
C1_Orchestration ==
    entry = "MxSx" =>
        /\ mx # None =>
              /\ mx.vels = args.vels /\ mx.vvir = args.vvir
              /\ mx.vesc = args.vesc /\ mx.vcirc = args.vcirc
              /\ mx.vmin = args.vmin /\ mx.Arho = args.Arho
        /\ sxArgs # None =>
              /\ MxReturnedValue
              /\ sxArgs[1] =
                    [vels |-> args.vels, vesc |-> args.vesc,
                     vhold |-> mxRet[1].value[3], vcirc |-> args.vcirc,
                     vmin |-> args.vmin, minsigma |-> args.minsigma,
                     sigma_factor |-> args.sigma_factor]
        /\ FinishedWithValue =>
              /\ MxReturnedValue /\ SxReturnedValue
              /\ ret[1].value = <<mxRet[1].value[1], sxRet[1].value[1],
                                  mxRet[1].value[2], sxRet[1].value[2]>>

\* a full run whose handoff is not the 800 km/s seed and whose final carried
\* velocity is not the handoff
C1_Witness ==
    /\ entry = "MxSx"
    /\ FinishedWithValue
    /\ mxRet[1].value[3] # VholdInit
    /\ sxArgs[1].vhold = mxRet[1].value[3]
    /\ ret[1].value[4] # mxRet[1].value[3]
    /\ ret[1].value[1] # <<>>
    /\ ret[1].value[2] # <<>>

-----------------------------------------------------------------------------
(* C2 *)

\* C2: when no grid triple lies inside the escape-velocity sphere,
\* calculate_Mx, having passed the spacing check, ends in the distinguished
\* EmptyIntegrationDomain failure.
C2_EmptyDomainFailure ==
    (/\ MxDone
     /\ mx.vstep # None
     /\ QualifyingBelow(mx.vels, mx.vesc, Cube(mx.vels)) = {})
        => mxRet[1].kind = "EmptyIntegrationDomain"

-----------------------------------------------------------------------------
(* C3 *)

\* C3: calculate_Mx raises the spacing error, with no grid point visited, for
\* every axis whose smallest and largest successive differences are not
\* approximately equal, and does not raise it for an axis whose successive
\* differences are all equal within tolerance.
C3_SpacingCheck ==
    (mx # None /\ pc # "Mx_check" /\ Len(mx.vels) >= 2) =>
        /\ ~MinMaxClose(mx.vels) =>
              /\ mx.exc = Some("ValueError")
              /\ mx.i = 0
              /\ mx.vrel = None
        /\ AllStepsClose(mx.vels) => mx.exc # Some("ValueError")

-----------------------------------------------------------------------------
(* C4 *)

\* C4: calculate_Sx called directly with an axis that is not evenly spaced
\* fails with the spacing error.
C4_SxSpacingCheck ==
    (/\ entry = "Sx"
     /\ Finished
     /\ args.sigma_factor # None
     /\ ~MinMaxClose(args.vels))
        => ret[1].kind = "ValueError"

-----------------------------------------------------------------------------
(* C5 *)

\* C5: calculate_Mx_and_Sx with an evenly spaced axis of at least two samples
\* and every other argument at its default returns the four outputs.
C5_DefaultsComplete ==
    (/\ entry = "MxSx"
     /\ Finished
     /\ Len(args.vels) >= 2
     /\ AllStepsClose(args.vels)
     /\ [k \in DOMAIN Defaults |-> args[k]] = Defaults)
        => /\ ret[1].kind = "return"
           /\ Len(ret[1].value) = 4

-----------------------------------------------------------------------------
(* C6 *)

\* the qualifying positions of the caller's grid
QualifyingAll == QualifyingBelow(args.vels, args.vesc, Cube(args.vels))

VrelOfCall(p) == VrelAt(args.vels, args.vmin, args.vcirc, p)

-----------------------------------------------------------------------------
(* C7 *)

\* C7: the Vhold of calculate_Mx starts at 800 km/s and is only lowered, so
\* it never exceeds 800 km/s.
C7_VholdAtMost800 ==
    /\ mx # None => mx.Vhold <= VholdInit
    /\ MxReturnedValue => mxRet[1].value[3] <= VholdInit

-----------------------------------------------------------------------------
(* C8 *)

\* min(seed, vrel_1, ..., vrel_k) over the qualifying triples among the first
\* n positions of the grid calculate_Sx was called with
CarriedAfter(a, n) ==
    SetMin({a.vhold} \cup
           {VrelAt(a.vels, a.vmin, a.vcirc, p) :
               p \in QualifyingBelow(a.vels, a.vesc, n)})

\* C8: every iteration of calculate_Sx leaves vhold no greater than it was,
\* no greater than the seed, and equal to the prefix-min of the seed and the
\* relative velocities of the qualifying triples visited so far.
C8_CarriedVelocityPrefixMin ==
    [][(pc = "Sx_loop" /\ sx.it # <<>>) =>
          /\ sx'.vhold <= sx.vhold
          /\ sx'.vhold <= sxArgs[1].vhold
          /\ sx'.vhold = CarriedAfter(sxArgs[1], sx'.i)]_vars

\* a qualifying triple has just been visited whose own relative velocity is
\* above the cap, and the cap is below the seed
C8_Witness ==
    /\ pc = "Sx_loop"
    /\ sx.i > 0
    /\ Qualifies(sx.vels, sx.vesc, sx.i - 1)
    /\ VrelAt(sx.vels, sx.vmin, sx.vcirc, sx.i - 1) > sx.vhold
    /\ sx.vhold < sxArgs[1].vhold
    /\ sx.vhold = CarriedAfter(sxArgs[1], sx.i)

-----------------------------------------------------------------------------
(* C9 *)

AllPositive(q) == \A k \in 1 .. Len(q) : q[k] > 0

\* C9: the arrays calculate_Mx and calculate_Sx return hold only strictly
\* positive entries, at most N^3 of them.
C9_PositiveBounded ==
    /\ MxReturnedValue =>
          /\ AllPositive(mxRet[1].value[1])
          /\ Len(mxRet[1].value[1]) <= Cube(args.vels)
    /\ SxReturnedValue =>
          /\ AllPositive(sxRet[1].value[1])
          /\ Len(sxRet[1].value[1]) <= Cube(args.vels)

\* both integrators wrote a zero at a qualifying position (Arho = 0;
\* sigma_factor = 0 with minsigma = 0) and the compaction dropped it
C9_Witness ==
    /\ entry = "MxSx"
    /\ FinishedWithValue
    /\ QualifyingAll # {}
    /\ \E p \in QualifyingAll : mx.i > p /\ args.Arho = 0
    /\ \E p \in QualifyingAll : sx.i > p /\ args.sigma_factor = Some(0) /\ args.minsigma = 0
    /\ Len(mxRet[1].value[1]) < Cardinality(QualifyingAll)
    /\ Len(sxRet[1].value[1]) < Cardinality(QualifyingAll)

-----------------------------------------------------------------------------
(* C10 *)

-----------------------------------------------------------------------------
(* C11 *)

\* C11: twobody_vesc(ve1, ve2, vo) returns sqrt(ve1^2 + (ve2 - vo)^2) for
\* every vo the caller supplies, a zero vo included; the circular-orbit value
\* ve2 / sqrt(2) stands in for vo only when vo is None.
C11_TwobodySuppliedVo ==
    (entry = "twobody_vesc" /\ Finished) =>
        LET vo == IF args.vo # None THEN args.vo[1]
                  ELSE (args.ve2 * 10000) \div Sqrt2
        IN  /\ ret[1].kind = "return"
            /\ ret[1].value =
                  Sqrt(args.ve1 * args.ve1 + (args.ve2 - vo) * (args.ve2 - vo))

-----------------------------------------------------------------------------
(* C12 *)

\* the chain after the circular-orbit correction: the first velocity as it
\* is, every later one times 1 - 1/sqrt(2) = 0.2929
CircularChain(vescs) ==
    [k \in 1 .. Len(vescs) |->
        IF k = 1 THEN vescs[k] ELSE (vescs[k] * 2929) \div 10000]

\* the composition of the first k velocities of vs, from the left:
\* norm(... norm(norm(vs[1], vs[2]), vs[3]) ..., vs[k])
RECURSIVE ComposedTo(_, _)
ComposedTo(vs, k) ==
    IF k = 1 THEN vs[1]
    ELSE Sqrt(ComposedTo(vs, k - 1) * ComposedTo(vs, k - 1) + vs[k] * vs[k])

\* C12: multibody_vesc(v1, ..., vn) with vo omitted returns the left-to-right
\* composition under norm of v1 and the later velocities times 1 - 1/sqrt(2);
\* for two velocities that is twobody_vesc(v1, v2), up to the rounding of
\* ve2 - ve2/sqrt(2) against ve2 * (1 - 1/sqrt(2)) (one grid unit); a single
\* velocity is returned unchanged.
C12_MultibodyCircular ==
    (/\ entry = "multibody_vesc"
     /\ Finished
     /\ args.vo = None
     /\ ~args.accumulate
     /\ Len(args.vescs) >= 1)
        => /\ ret[1].kind = "return"
           /\ ret[1].value =
                 ComposedTo(CircularChain(args.vescs), Len(args.vescs))
           /\ Len(args.vescs) = 1 => ret[1].value = args.vescs[1]
           /\ Len(args.vescs) = 2 =>
                 Abs(ret[1].value
                     - twobody_vesc(args.vescs[1], args.vescs[2], None)) <= 1

\* the docstring's chain Earth, Sun, Galaxy: 11.2, 42.1, 550 km/s compose to
\* 162 km/s, the value of the example (161.9 km/s) on the grid
C12_Witness ==
    /\ entry = "multibody_vesc"
    /\ Finished
    /\ args.vo = None
    /\ ~args.accumulate
    /\ args.vescs = <<112, 421, 5500>>
    /\ ret[1].kind = "return"
    /\ ret[1].value \in 1615 .. 1625

-----------------------------------------------------------------------------
(* C13 *)

\* C13: multibody_vesc with accumulate=True (vo omitted) returns one entry
\* per prefix of the chain, entry k the composition of the first k corrected
\* velocities: as many entries as velocities, the first entry the first
\* velocity, the last entry the value accumulate=False returns.
C13_AccumulatePrefixes ==
    (/\ entry = "multibody_vesc"
     /\ Finished
     /\ args.accumulate
     /\ args.vo = None
     /\ Len(args.vescs) >= 1)
        => /\ ret[1].kind = "return"
           /\ Len(ret[1].value) = Len(args.vescs)
           /\ \A k \in 1 .. Len(args.vescs) :
                 ret[1].value[k] = ComposedTo(CircularChain(args.vescs), k)
           /\ ret[1].value[1] = args.vescs[1]
           /\ Return(ret[1].value[Len(args.vescs)])
                 = multibody_vesc(args.vescs, None, FALSE)

-----------------------------------------------------------------------------
(* C14 *)

\* C14: multibody_vesc with two or more escape velocities and an explicit vo
\* list of the same length returns the composed escape velocity and does not
\* raise.
C14_ExplicitOrbitalList ==
    (/\ entry = "multibody_vesc"
     /\ Finished
     /\ ~args.accumulate
     /\ Len(args.vescs) >= 2
     /\ args.vo # None
     /\ Len(args.vo[1]) = Len(args.vescs))
        => ret[1].kind = "return"

-----------------------------------------------------------------------------
(* C15 *)

\* the Maxwellian weight of the triple at position p, for bins of width vstep
WeightAt(a, vstep, p) == f_BM_bin(qnorm(TripleAt(a.vels, p)), vstep, a.vvir)

\* the sum of vrel * weight over the qualifying triples among the first n
\* positions of the grid
RECURSIVE FluxBelow(_, _, _)
FluxBelow(a, vstep, n) ==
    IF n = 0 THEN 0
    ELSE FluxBelow(a, vstep, n - 1)
         + (IF Qualifies(a.vels, a.vesc, n - 1)
            THEN VrelAt(a.vels, a.vmin, a.vcirc, n - 1) * WeightAt(a, vstep, n - 1)
            ELSE 0)

\* C15: after every iteration of a call of calculate_Mx the cumulative flux
\* vbar is the sum of vrel * weight over the qualifying triples visited so
\* far, and the mass written for a qualifying triple is Arho times that
\* running sum.
C15_CumulativeFlux ==
    [][(entry = "Mx" /\ pc = "Mx_loop" /\ mx.it # <<>>) =>
          LET flux == FluxBelow(args, mx.vstep[1], mx.i + 1)
          IN  /\ mx'.vbar = flux
              /\ Qualifies(args.vels, args.vesc, mx.i) =>
                    mx'.Mxs[mx.i + 1] = args.Arho * flux]_vars

\* the triple just visited qualifies and is not the first that did: the
\* mass written for it is Arho times a running sum that exceeds the triple's
\* own flux
C15_Witness ==
    /\ entry = "Mx"
    /\ pc = "Mx_loop"
    /\ mx.i >= 2
    /\ Qualifies(mx.vels, mx.vesc, mx.i - 1)
    /\ Cardinality(QualifyingBelow(mx.vels, mx.vesc, mx.i)) >= 3
    /\ mx.Arho > 0
    /\ WeightAt(args, mx.vstep[1], mx.i - 1) > 0
    /\ mx.vbar > VrelOfCall(mx.i - 1) * WeightAt(args, mx.vstep[1], mx.i - 1)
    /\ mx.Mxs[mx.i] = mx.Arho * mx.vbar

-----------------------------------------------------------------------------
(* C16 *)

\* the flat position (ix * N + iy) * N + iz of the triple with the axis
\* indices ix, iy, iz, which the iterator counts from 1
FlatIndex(it, n) == ((it[1] - 1) * n + (it[2] - 1)) * n + (it[3] - 1)

\* one loop iteration takes the frame f with output array out to the frame g
\* with output array out2: the triple visited is the one at the flat position
\* the counter shows, only that position's slot may change, the counter
\* advances by one, and the iterator is exhausted exactly after N^3 triples
VisitsInOrder(f, out, g, out2) ==
    LET n == Len(f.vels)
    IN  /\ f.i = FlatIndex(f.it, n)
        /\ <<f.vels[f.it[1]], f.vels[f.it[2]], f.vels[f.it[3]]>>
              = TripleAt(f.vels, f.i)
        /\ g.i = f.i + 1
        /\ (g.it = <<>>) <=> (g.i = n * n * n)
        /\ \A k \in 1 .. (n * n * n) : k # f.i + 1 => out2[k] = out[k]

\* C16: both integrators visit the N^3 triples with the first component
\* slowest and the third fastest, write the value of the triple with axis
\* indices (ix, iy, iz) at flat position (ix * N + iy) * N + iz and nowhere
\* else, and advance the position counter by one for every triple visited.
C16_EnumerationOrder ==
    [][/\ (pc = "Mx_loop" /\ mx.it # <<>>) =>
             VisitsInOrder(mx, mx.Mxs, mx', mx'.Mxs)
       /\ (pc = "Sx_loop" /\ sx.it # <<>>) =>
             VisitsInOrder(sx, sx.Sxs, sx', sx'.Sxs)]_vars

\* calculate_Sx on an axis of three or more samples is about to visit the
\* triple with indices (1, 2, 0) at position (1 * N + 2) * N; it has written
\* a slot since the first index turned, and skipped a slot
C16_Witness ==
    /\ pc = "Sx_loop"
    /\ Len(sx.vels) >= 3
    /\ sx.it = <<2, 3, 1>>
    /\ sx.i = (Len(sx.vels) + 2) * Len(sx.vels)
    /\ \E p \in (Len(sx.vels) * Len(sx.vels)) .. (sx.i - 1) : sx.Sxs[p + 1] > 0
    /\ \E p \in 0 .. (sx.i - 1) :
          ~Qualifies(sx.vels, sx.vesc, p) /\ sx.Sxs[p + 1] = 0

-----------------------------------------------------------------------------
(* C17 *)

\* the squared norm of the triple at position p exceeds vesc squared
Outside(vels, vesc, p) == SumSq(TripleAt(vels, p)) > vesc * vesc

\* C17: an iteration on a triple with norm(vx, vy, vz) > vesc changes nothing
\* of the integrator's frame but the position counter and the iterator: the
\* slot stays zero, vbar (calculate_Mx) and vhold (calculate_Sx) keep their
\* values.  A triple with norm <= vesc, equality included, is processed: its
\* relative velocity is taken and vbar or vhold is updated with it.
C17_SkipLeavesFrame ==
    [][/\ (pc = "Mx_loop" /\ mx.it # <<>>) =>
             IF Outside(mx.vels, mx.vesc, mx.i)
             THEN /\ mx' = [mx EXCEPT !.i = mx.i + 1, !.it = mx'.it]
                  /\ mx'.Mxs[mx.i + 1] = 0
                  /\ mx'.vbar = mx.vbar
             ELSE /\ mx'.vrel = Some(VrelAt(mx.vels, mx.vmin, mx.vcirc, mx.i))
                  /\ mx'.vbar >= mx.vbar
                  /\ mx'.Mxs[mx.i + 1] = mx.Arho * mx'.vbar
       /\ (pc = "Sx_loop" /\ sx.it # <<>>) =>
             IF Outside(sx.vels, sx.vesc, sx.i)
             THEN /\ sx' = [sx EXCEPT !.i = sx.i + 1, !.it = sx'.it]
                  /\ sx'.Sxs[sx.i + 1] = 0
                  /\ sx'.vhold = sx.vhold
             ELSE /\ sx'.vrel = Some(sx'.vhold)
                  /\ sx'.vhold <= VrelAt(sx.vels, sx.vmin, sx.vcirc, sx.i)]_vars

\* calculate_Mx has just processed a triple whose norm is exactly vesc (its
\* slot is written), after skipping a triple outside the sphere (its slot is
\* zero) with vbar already above zero
C17_Witness ==
    /\ pc = "Mx_loop"
    /\ mx.i >= 2
    /\ SumSq(TripleAt(mx.vels, mx.i - 1)) = mx.vesc * mx.vesc
    /\ mx.Mxs[mx.i] > 0
    /\ mx.vrel = Some(VrelAt(mx.vels, mx.vmin, mx.vcirc, mx.i - 1))
    /\ \E p \in 1 .. (mx.i - 2) :
          /\ Outside(mx.vels, mx.vesc, p)
          /\ mx.Mxs[p + 1] = 0
          /\ \E q \in 0 .. (p - 1) : mx.Mxs[q + 1] > 0

-----------------------------------------------------------------------------
(* C18 *)

Min2(a, b) == IF a <= b THEN a ELSE b

Max2(a, b) == IF a >= b THEN a ELSE b

\* C18: for every qualifying triple calculate_Sx (given a sigma_factor)
\* writes max(sigma_factor / v^2, minsigma), v the smaller of the triple's
\* relative velocity and the velocity carried into the iteration; the value
\* written is at least minsigma.
C18_SigmaFloor ==
    [][(/\ pc = "Sx_loop"
        /\ sx.it # <<>>
        /\ sxArgs[1].sigma_factor # None
        /\ Qualifies(sxArgs[1].vels, sxArgs[1].vesc, sx.i)) =>
          LET a == sxArgs[1]
              v == Min2(VrelAt(a.vels, a.vmin, a.vcirc, sx.i), sx.vhold)
          IN  /\ sx'.Sxs[sx.i + 1]
                    = Max2(a.sigma_factor[1] \div (v * v), a.minsigma)
              /\ sx'.Sxs[sx.i + 1] >= a.minsigma]_vars

\* calculate_Sx has written the floor for one triple (sigma_factor / v^2 was
\* below it) and a value above the floor for a later one, whose velocity was
\* the carried one, not the triple's own
C18_Witness ==
    /\ pc = "Sx_loop"
    /\ sx.i >= 2
    /\ sx.minsigma > 0
    /\ Qualifies(sx.vels, sx.vesc, sx.i - 1)
    /\ sx.Sxs[sx.i] > sx.minsigma
    /\ VrelAt(sx.vels, sx.vmin, sx.vcirc, sx.i - 1) > sx.vhold
    /\ sx.Sxs[sx.i] = sx.sigma_factor[1] \div (sx.vhold * sx.vhold)
    /\ \E p \in 0 .. (sx.i - 2) :
          /\ Qualifies(sx.vels, sx.vesc, p)
          /\ sx.Sxs[p + 1] = sx.minsigma

-----------------------------------------------------------------------------
(* C19 *)

\* the slot of the triple just visited, if it qualified, holds a value no
\* smaller than any slot before it (a slot not written holds zero)
LastWrittenIsLargest(f) ==
    (f.i >= 1 /\ Qualifies(f.vels, f.vesc, f.i - 1)) =>
        \A k \in 1 .. (f.i - 1) : f.Sxs[k] <= f.Sxs[f.i]

NonDecreasing(q) == \A k \in 1 .. (Len(q) - 1) : q[k] <= q[k + 1]

\* C19: for a sigma_factor >= 0 no cross-section calculate_Sx writes is
\* smaller than one it wrote before, at any moment of the loop, and the array
\* it returns is non-decreasing.
C19_SigmaNonDecreasing ==
    (/\ sx # None
     /\ sx.sigma_factor # None
     /\ sx.sigma_factor[1] >= 0)
        => /\ pc = "Sx_loop" => LastWrittenIsLargest(sx)
           /\ SxReturnedValue => NonDecreasing(sxRet[1].value[1])

\* calculate_Sx returned an array that starts on the minsigma floor and
\* rises above it twice
C19_Witness ==
    /\ SxReturnedValue
    /\ sx.minsigma > 0
    /\ Len(sxRet[1].value[1]) >= 3
    /\ sxRet[1].value[1][1] = sx.minsigma
    /\ \E j, k \in 1 .. Len(sxRet[1].value[1]) :
          /\ j < k
          /\ sx.minsigma < sxRet[1].value[1][j]
          /\ sxRet[1].value[1][j] < sxRet[1].value[1][k]

-----------------------------------------------------------------------------
(* C20 *)

\* C20: an integrator that has entered its loop on an N-sample axis never
\* performs more than N^3 iterations, and when it ends, with its result or
\* with an error, it has performed exactly N^3, however many triples
\* qualified.
C20_ExactlyCubeIterations ==
    /\ (mx # None /\ mx.vstep # None) =>
          /\ mx.i <= Cube(mx.vels)
          /\ MxDone => mx.i = Cube(mx.vels)
    /\ sx # None =>
          /\ sx.i <= Cube(sx.vels)
          /\ SxDone => sx.i = Cube(sx.vels)

-----------------------------------------------------------------------------
(* C21 *)

\* the samples of an axis in the opposite order
Reverse(vels) == [k \in 1 .. Len(vels) |-> vels[Len(vels) + 1 - k]]

\* an axis of two or more samples, each below the one before by the same step
EvenDescending(vels) ==
    /\ Len(vels) >= 2
    /\ vels[2] < vels[1]
    /\ \A k \in 1 .. (Len(vels) - 1) : vels[k + 1] - vels[k] = vels[2] - vels[1]

\* C21: calculate_Mx accepts an evenly spaced descending axis (the spacing
\* check does not ask for an increasing axis), and its bin width is the
\* magnitude of the step: the bin width it takes from the same samples in
\* ascending order.
C21_AbsoluteStep ==
    (mx # None /\ pc # "Mx_check" /\ EvenDescending(mx.vels)) =>
        /\ mx.exc # Some("ValueError")
        /\ mx.vstep = Some(mx.vels[1] - mx.vels[2])
        /\ mx.vstep
              = MxSetup(MxEnter([args EXCEPT !.vels = Reverse(mx.vels)])).vstep

\* calculate_Mx is in its loop on a descending axis of three or more samples
\* and has written a mass weighted with the positive bin width
C21_Witness ==
    /\ pc = "Mx_loop"
    /\ EvenDescending(mx.vels)
    /\ Len(mx.vels) >= 3
    /\ mx.vstep = Some(100)
    /\ Diff(mx.vels)[1] = -100
    /\ \E k \in 1 .. mx.i : mx.Mxs[k] > 0

-----------------------------------------------------------------------------
(* C22 *)

\* the qualifying positions among the first n, in enumeration order
RECURSIVE QualifyingSeq(_, _, _)
QualifyingSeq(vels, vesc, n) ==
    IF n = 0 THEN <<>>
    ELSE IF Qualifies(vels, vesc, n - 1)
    THEN Append(QualifyingSeq(vels, vesc, n - 1), n - 1)
    ELSE QualifyingSeq(vels, vesc, n - 1)

\* C22: when calculate_Mx_and_Sx returns for Arho > 0, vmin > 0 and
\* minsigma > 0, the mass array and the cross-section array both have one
\* entry per triple with norm <= vesc, and entry k of each is the value of
\* the k-th qualifying triple: Arho times the cumulative flux up to it, and
\* the floored cross-section at the velocity carried up to it.
C22_PairedArrays ==
    (/\ entry = "MxSx"
     /\ FinishedWithValue
     /\ args.Arho > 0
     /\ args.vmin > 0
     /\ args.minsigma > 0)
        => LET q == QualifyingSeq(args.vels, args.vesc, Cube(args.vels))
               Mxs == ret[1].value[1]
               Sxs == ret[1].value[2]
           IN  /\ Len(Mxs) = Len(q)
               /\ Len(Sxs) = Len(q)
               /\ \A k \in 1 .. Len(q) :
                     LET v == CarriedAfter(sxArgs[1], q[k] + 1)
                     IN  /\ Mxs[k] = args.Arho
                                     * FluxBelow(args, mx.vstep[1], q[k] + 1)
                         /\ Sxs[k] = Max2(args.sigma_factor[1] \div (v * v),
                                          args.minsigma)

\* a run that returned two arrays of three or more entries on a grid where
\* some triples qualify and some do not, the cross-sections not all equal
C22_Witness ==
    /\ entry = "MxSx"
    /\ FinishedWithValue
    /\ args.Arho > 0
    /\ args.minsigma > 0
    /\ Len(ret[1].value[1]) >= 3
    /\ Len(ret[1].value[1]) = Len(ret[1].value[2])
    /\ Len(ret[1].value[1]) = Cardinality(QualifyingAll)
    /\ Len(ret[1].value[1]) < Cube(args.vels)
    /\ ret[1].value[2][1] < ret[1].value[2][Len(ret[1].value[2])]

-----------------------------------------------------------------------------
(* C23 *)

\* C23: for Arho >= 0 (the flux terms vrel * weight are never negative) no
\* mass calculate_Mx writes is smaller than one it wrote before, the array it
\* returns is non-decreasing, and the last entry of that array is Arho times
\* the cumulative flux it returns.
C23_MassNonDecreasing ==
    (mx # None /\ mx.Arho >= 0) =>
        /\ (pc = "Mx_loop" /\ mx.i >= 1
               /\ Qualifies(mx.vels, mx.vesc, mx.i - 1)) =>
              /\ \A k \in 1 .. (mx.i - 1) : mx.Mxs[k] <= mx.Mxs[mx.i]
              /\ mx.Mxs[mx.i] = mx.Arho * mx.vbar
        /\ MxReturnedValue =>
              LET Mxs == mxRet[1].value[1]
              IN  /\ NonDecreasing(Mxs)
                  /\ Mxs # <<>> => Mxs[Len(Mxs)] = mx.Arho * mxRet[1].value[2]

\* calculate_Mx returned three or more masses, the last above the first, and
\* the last qualifying triple was not the last of the grid
C23_Witness ==
    /\ MxReturnedValue
    /\ Len(mxRet[1].value[1]) >= 3
    /\ mxRet[1].value[1][1] < mxRet[1].value[1][Len(mxRet[1].value[1])]
    /\ mxRet[1].value[1][Len(mxRet[1].value[1])] = args.Arho * mxRet[1].value[2]
    /\ SetMax(QualifyingAll) < Cube(args.vels) - 1

-----------------------------------------------------------------------------
(* C24 *)

\* the smallest relative velocity over the qualifying triples of the grid
MinVrelOfCall == SetMin({VrelOfCall(p) : p \in QualifyingAll})

\* C24: when calculate_Mx_and_Sx returns, the grid has a qualifying triple
\* and the carried velocity returned is the minimum of vrel over all the
\* qualifying triples, whichever of them came last in the mass pass.
C24_FinalIsGridMinimum ==
    (entry = "MxSx" /\ FinishedWithValue) =>
        /\ QualifyingAll # {}
        /\ ret[1].value[4] = MinVrelOfCall

\* the run returned the grid minimum, which is below the handoff and is the
\* relative velocity of neither the first nor the last qualifying triple
C24_Witness ==
    /\ entry = "MxSx"
    /\ FinishedWithValue
    /\ ret[1].value[4] = MinVrelOfCall
    /\ ret[1].value[4] < mxRet[1].value[3]
    /\ ret[1].value[4] < VrelOfCall(SetMin(QualifyingAll))
    /\ ret[1].value[4] < VrelOfCall(SetMax(QualifyingAll))
    /\ Cardinality(QualifyingAll) >= 3

-----------------------------------------------------------------------------
(* C25 *)

\* the relative velocity of the last qualifying triple: the handoff
VrelLast == VrelOfCall(SetMax(QualifyingAll))

\* C25: in a run of calculate_Mx_and_Sx the velocity carried through the
\* cross-section pass never exceeds the handoff, which is the relative
\* velocity of the last qualifying triple; so for sigma_factor >= 0 every
\* cross-section returned, the first included, is at least
\* max(minsigma, sigma_factor / vrel_last^2).
C25_CappedByHandoff ==
    (entry = "MxSx" /\ sx # None) =>
        /\ sxArgs[1].vhold = mxRet[1].value[3]
        /\ sx.vhold <= mxRet[1].value[3]
        /\ FinishedWithValue =>
              /\ mxRet[1].value[3] = VrelLast
              /\ args.sigma_factor[1] >= 0 =>
                    \A k \in 1 .. Len(ret[1].value[2]) :
                       ret[1].value[2][k]
                          >= Max2(args.minsigma,
                                  args.sigma_factor[1]
                                     \div (VrelLast * VrelLast))

\* the first qualifying triple's own relative velocity is above the handoff,
\* and the first cross-section returned is above what that velocity gives
C25_Witness ==
    /\ entry = "MxSx"
    /\ FinishedWithValue
    /\ args.sigma_factor[1] > 0
    /\ VrelOfCall(SetMin(QualifyingAll)) > VrelLast
    /\ ret[1].value[2][1]
          = Max2(args.minsigma, args.sigma_factor[1] \div (VrelLast * VrelLast))
    /\ ret[1].value[2][1]
          > Max2(args.minsigma,
                 args.sigma_factor[1]
                    \div (VrelOfCall(SetMin(QualifyingAll))
                          * VrelOfCall(SetMin(QualifyingAll))))

====
